---- MODULE Spec2Model ----
(***************************************************************************)
(* Model of StreamlitPRThemeClassifier.py: a Streamlit page that reads an  *)
(* uploaded table, normalises its headers, and, when "Classify Articles"   *)
(* is clicked, fetches every non-null URL, extracts the paragraph text and *)
(* asks a zero-shot model for the best of the user's categories.           *)
(*                                                                         *)
(* Python strings are sequences of one-character strings, so that strip,   *)
(* upper, split, join and slicing are computed and not assumed.            *)
(***************************************************************************)
EXTENDS Integers, Sequences, FiniteSets, TLC

(***************************************************************************)
(* Bounds of the explored inputs.                                          *)
(***************************************************************************)
MaxRows == 2

(***************************************************************************)
(* Python values: None / NaN, and str.                                     *)
(***************************************************************************)
None == [tag |-> "None"]

Str(s) == [tag |-> "str", val |-> s]

Whitespace == {" ", "\n"}

Lower == <<"a", "b", "c", "d", "e", "f", "g", "h", "i", "j", "k", "l", "m",
           "n", "o", "p", "q", "r", "s", "t", "u", "v", "w", "x", "y", "z">>

Capital == <<"A", "B", "C", "D", "E", "F", "G", "H", "I", "J", "K", "L", "M",
             "N", "O", "P", "Q", "R", "S", "T", "U", "V", "W", "X", "Y", "Z">>

\* str.upper() on one character
UpperChar(c) ==
    IF \E k \in DOMAIN Lower : Lower[k] = c
    THEN Capital[CHOOSE k \in DOMAIN Lower : Lower[k] = c]
    ELSE c

\* str.upper()
Upper(s) == [k \in DOMAIN s |-> UpperChar(s[k])]

RECURSIVE LStrip(_)
LStrip(s) ==
    IF s # <<>> /\ Head(s) \in Whitespace THEN LStrip(Tail(s)) ELSE s

RECURSIVE RStrip(_)
RStrip(s) ==
    IF s # <<>> /\ s[Len(s)] \in Whitespace
    THEN RStrip(SubSeq(s, 1, Len(s) - 1))
    ELSE s

\* str.strip()
Strip(s) == RStrip(LStrip(s))

\* str.split(sep) for a one-character separator: always at least one piece
RECURSIVE Split(_, _)
Split(s, sep) ==
    IF \E k \in DOMAIN s : s[k] = sep
    THEN LET k == CHOOSE j \in DOMAIN s :
                      s[j] = sep /\ \A m \in 1..(j - 1) : s[m] # sep
         IN  <<SubSeq(s, 1, k - 1)>> \o Split(SubSeq(s, k + 1, Len(s)), sep)
    ELSE <<s>>

\* sep.join(parts)
RECURSIVE Join(_, _)
Join(parts, sep) ==
    IF parts = <<>> THEN <<>>
    ELSE IF Len(parts) = 1 THEN parts[1]
    ELSE parts[1] \o sep \o Join(Tail(parts), sep)

\* [x for x in xs if x]  (drop the empty strings, keep the order)
RECURSIVE NonEmpty(_)
NonEmpty(xs) ==
    IF xs = <<>> THEN <<>>
    ELSE IF Head(xs) = <<>> THEN NonEmpty(Tail(xs))
    ELSE <<Head(xs)>> \o NonEmpty(Tail(xs))

(***************************************************************************)
(* String constants of the script.                                         *)
(***************************************************************************)
Uncategorized ==
    <<"U", "n", "c", "a", "t", "e", "g", "o", "r", "i", "z", "e", "d">>

URL == <<"U", "R", "L">>

csv == <<"c", "s", "v">>

xlsx == <<"x", "l", "s", "x">>

DefaultCategories ==
    <<"T", "e", "c", "h", "n", "o", "l", "o", "g", "y", ",", " ",
      "F", "i", "n", "a", "n", "c", "e", ",", " ",
      "H", "e", "a", "l", "t", "h", ",", " ",
      "S", "p", "o", "r", "t", "s", ",", " ",
      "E", "n", "t", "e", "r", "t", "a", "i", "n", "m", "e", "n", "t">>

\* text[:1000]
TruncateLen == 1000

(***************************************************************************)
(* Inputs: uploaded files, category text, HTTP responses.                  *)
(***************************************************************************)
FileNames ==
    { <<"d", ".", "c", "s", "v">>,
      <<"d", ".", "v", "2", ".", "x", "l", "s", "x">>,
      <<"d", ".", "C", "S", "V">> }

\* header rows of the uploaded table, as typed in the file
ColumnLists ==
    { << <<" ", "u", "r", "l", " ">> >>,
      << <<"t", "i", "t", "l", "e">>, <<"U", "r", "l", "\n">> >>,
      << <<"t", "i", "t", "l", "e">> >>,
      << <<"u", " ", "r", "l">> >>,
      << <<"U", "R", "L">>, <<"u", "r", "l">> >> }

\* the one address used in URL cells, and the cell of a passthrough column
Address == <<"h", "t", "t", "p", ":", "/", "/", "g">>

Passthrough == <<"x">>

\* df.columns.str.upper(), the normalisation without strip
NormalizeHeader_upper_only(h) == Upper(h)

\* header normalisation of line 84
NormalizeHeader(h) == Upper(Strip(h))

\* the values a cell under header h may hold: URL cells may be NaN
CellsUnder(h) ==
    IF NormalizeHeader(h) = URL THEN {None, Str(Address)} ELSE {Str(Passthrough)}

RowsOf(columns) ==
    { r \in [DOMAIN columns -> {None, Str(Address), Str(Passthrough)}] :
        \A j \in DOMAIN columns : r[j] \in CellsUnder(columns[j]) }

TablesOf(columns) ==
    UNION { [1..n -> RowsOf(columns)] : n \in 0..MaxRows }

Files ==
    UNION { { [name |-> n, columns |-> c, rows |-> t] :
                n \in FileNames, t \in TablesOf(c) } : c \in ColumnLists }

\* what the user may type in the categories text area
CategoryInputs ==
    { DefaultCategories,
      <<" ", "T", "e", "c", "h", " ", ",", ",", " ", "S", "p", "o", "r", "t", "s", " ", ",">>,
      <<" ", ",", " ">>,
      <<>> }

\* a run of n letters whose content depends on the position
Fill(n) == [k \in 1..n |-> IF k % 2 = 1 THEN "a" ELSE "b"]

\* get_text() of the <p> elements of the pages a server may return
Pages ==
    { <<>>,
      << <<>> >>,
      << <<" ">> >>,
      << <<>>, <<"\n">> >>,
      << <<" ", "a">>, <<"b", "\n">> >>,
      << Fill(TruncateLen) >>,
      << Fill(TruncateLen - 1), <<"c">> >> }

\* outcomes of requests.get: a response, or one of the two caught exceptions
Responses ==
    { [kind |-> "Response", status_code |-> 200, paragraphs |-> p] : p \in Pages }
    \cup { [kind |-> "Response", status_code |-> 404, paragraphs |-> <<>>],
           [kind |-> "SSLError", status_code |-> 0, paragraphs |-> <<>>],
           [kind |-> "RequestException", status_code |-> 0, paragraphs |-> <<>>] }

(***************************************************************************)
(* Pure functions of the script.                                           *)
(***************************************************************************)
\* a lambda that drops the null check of line 108
notna_always(v) == TRUE

\* pd.notna(url)
notna(v) == v # None

\* Python truthiness of an Optional[str]
Truthy(v) == v # None /\ v.val # <<>>

\* return value of extract_text for one outcome of requests.get
extract_text(response) ==
    IF response.kind = "SSLError" THEN None
    ELSE IF response.kind = "RequestException" THEN None
    ELSE IF response.status_code # 200 THEN None
    ELSE LET article_text == Join(response.paragraphs, <<" ">>)
         IN  IF article_text # <<>> THEN Str(Strip(article_text)) ELSE None

\* an extract_text whose non-200 branch returns without st.warning
extract_text_message_quiet(response, row) ==
    IF response.kind = "SSLError"
    THEN << [level |-> "error", what |-> "SSL Error", row |-> row] >>
    ELSE IF response.kind = "RequestException"
    THEN << [level |-> "error", what |-> "Request Error", row |-> row] >>
    ELSE <<>>

\* the st.warning / st.error extract_text surfaces, <<>> when it surfaces none
extract_text_message(response, row) ==
    IF response.kind = "SSLError"
    THEN << [level |-> "error", what |-> "SSL Error", row |-> row] >>
    ELSE IF response.kind = "RequestException"
    THEN << [level |-> "error", what |-> "Request Error", row |-> row] >>
    ELSE IF response.status_code # 200
    THEN << [level |-> "warning", what |-> "HTTP status", row |-> row] >>
    ELSE <<>>

\* text[-1000:], the slice taken from the wrong end
Truncate_tail(text) ==
    SubSeq(text, IF Len(text) < TruncateLen THEN 1 ELSE Len(text) - TruncateLen + 1, Len(text))

\* text[:1000]
Truncate(text) == SubSeq(text, 1, IF Len(text) < TruncateLen THEN Len(text) ELSE TruncateLen)

\* categories = [c.strip() for c in categories_input.split(",") if c.strip()]
StripAll(parts) == [k \in DOMAIN parts |-> Strip(parts[k])]

ParseCategories(input) == NonEmpty(StripAll(Split(input, ",")))

\* str.lower() on one character
LowerChar(c) ==
    IF \E k \in DOMAIN Capital : Capital[k] = c
    THEN Lower[CHOOSE k \in DOMAIN Capital : Capital[k] = c]
    ELSE c

\* uploaded_file.name.split(".")[-1].lower(), an extension test that ignores case
FileExtension_lower(name) ==
    LET parts == Split(name, ".")
    IN  [k \in DOMAIN parts[Len(parts)] |-> LowerChar(parts[Len(parts)][k])]

\* uploaded_file.name.split(".")[-1]
FileExtension(name) ==
    LET parts == Split(name, ".") IN parts[Len(parts)]

\* df.columns.str.strip().str.upper()
NormalizeColumns(columns) == [j \in DOMAIN columns |-> NormalizeHeader(columns[j])]

\* "URL" in df.columns
HasUrlColumn(columns) == \E j \in DOMAIN columns : columns[j] = URL

\* positions of the columns df["URL"] selects
UrlColumns(columns) == { j \in DOMAIN columns : columns[j] = URL }

(***************************************************************************)
(* State.                                                                  *)
(***************************************************************************)
VARIABLES
    pc,               \* position of the script run
    uploaded_file,    \* the uploaded file, None before the upload
    df,               \* the DataFrame, None before it is read
    categories_input, \* content of the categories text area
    i,                \* index of the row Series.apply is at
    response,         \* outcome of requests.get for row i, None outside
    text,             \* what extract_text returned for row i
    out,              \* labels Series.apply has collected so far
    http_log,         \* requests.get calls made, in order
    model_log,        \* classifier calls made, in order
    messages,         \* st.error / st.warning / st.success shown, in order
    displayed,        \* the table st.dataframe shows, None before
    output_file,      \* content of classified_urls.xlsx, None before
    download          \* what the download button offers, None before

vars == <<pc, uploaded_file, df, categories_input, i, response, text, out,
          http_log, model_log, messages, displayed, output_file, download>>

categories == ParseCategories(categories_input)

Init ==
    /\ pc = "await_upload"
    /\ uploaded_file = None
    /\ df = None
    /\ categories_input = DefaultCategories
    /\ i = 0
    /\ response = None
    /\ text = None
    /\ out = <<>>
    /\ http_log = <<>>
    /\ model_log = <<>>
    /\ messages = <<>>
    /\ displayed = None
    /\ output_file = None
    /\ download = None

(***************************************************************************)
(* Lines 70-90: the upload is read, its headers normalised and checked.    *)
(***************************************************************************)
Message(level, what, row) == [level |-> level, what |-> what, row |-> row]

Column(values) == [tag |-> "column", val |-> values]

Upload(f) ==
    /\ pc = "await_upload"
    /\ uploaded_file' = f
    /\ IF FileExtension(f.name) \notin {csv, xlsx}
       THEN /\ messages' = Append(messages, Message("error", "Unsupported file format", 0))
            /\ pc' = "stopped"
            /\ df' = df
       ELSE LET columns == NormalizeColumns(f.columns)
            IN  /\ df' = [columns |-> columns, rows |-> f.rows, Category |-> None]
                /\ IF ~HasUrlColumn(columns)
                   THEN /\ messages' = Append(messages, Message("error", "no URL column", 0))
                        /\ pc' = "no_url_column"
                   ELSE /\ messages' = Append(messages, Message("success", "File uploaded", 0))
                        /\ pc' = "await_click"
    /\ UNCHANGED <<categories_input, i, response, text, out, http_log, model_log,
                   displayed, output_file, download>>

(***************************************************************************)
(* Lines 96-100: the user edits the categories text area.                  *)
(***************************************************************************)
EditCategories(c) ==
    /\ pc = "await_click"
    /\ c # categories_input
    /\ categories_input' = c
    /\ UNCHANGED <<pc, uploaded_file, df, i, response, text, out, http_log, model_log,
                   messages, displayed, output_file, download>>

(***************************************************************************)
(* Lines 105-108: the button starts df["URL"].apply(...).  With two        *)
(* columns named URL, df["URL"] is a DataFrame, the lambda gets a whole    *)
(* column and `if pd.notna(url)` raises before any row is handled.         *)
(***************************************************************************)
ClickClassify ==
    /\ pc = "await_click"
    /\ IF Cardinality(UrlColumns(df.columns)) > 1
       THEN /\ pc' = "crashed"
            /\ UNCHANGED <<i, out>>
       ELSE /\ pc' = "row"
            /\ i' = 1
            /\ out' = <<>>
    /\ UNCHANGED <<uploaded_file, df, categories_input, response, text, http_log,
                   model_log, messages, displayed, output_file, download>>

\* df["URL"][k]
UrlCell(k) == df.rows[k][CHOOSE j \in UrlColumns(df.columns) : TRUE]

\* the lambda on a row whose URL is NaN
RowNull ==
    /\ pc = "row"
    /\ i <= Len(df.rows)
    /\ ~notna(UrlCell(i))
    /\ out' = Append(out, Uncategorized)
    /\ i' = i + 1
    /\ UNCHANGED <<pc, uploaded_file, df, categories_input, response, text, http_log,
                   model_log, messages, displayed, output_file, download>>

\* the lambda on a row with a URL, first half: extract_text(url)
FetchRow ==
    /\ pc = "row"
    /\ i <= Len(df.rows)
    /\ notna(UrlCell(i))
    /\ \E r \in Responses :
          /\ http_log' = Append(http_log, [row |-> i, url |-> UrlCell(i)])
          /\ response' = r
          /\ text' = extract_text(r)
          /\ messages' = messages \o extract_text_message(r, i)
    /\ pc' = "classify"
    /\ UNCHANGED <<uploaded_file, df, categories_input, i, out, model_log,
                   displayed, output_file, download>>

\* a classify_text that hands back the missing text instead of the sentinel
classify_text_blank(t, top) == IF ~Truthy(t) THEN <<>> ELSE top

\* a classify_text that returns candidate_labels[0], not result["labels"][0]
classify_text_first_candidate(t, top) ==
    IF ~Truthy(t) THEN Uncategorized
    ELSE ParseCategories(categories_input)[1]

\* return value of classify_text, given the label the model ranks first
classify_text(t, top) == IF ~Truthy(t) THEN Uncategorized ELSE top

\* a classify_text without the missing-text check of line 54
CallsModel_always(t) == TRUE

\* whether classify_text reaches the classifier call of line 57
CallsModel(t) == Truthy(t)

ModelCall(row, t, labels, top) ==
    [row |-> row, sequence |-> Truncate(t.val), candidate_labels |-> labels, top |-> top]

\* the lambda on a row with a URL, second half: classify_text(text, categories).
\* The pipeline raises ValueError when it is given no candidate label.
ClassifyRow ==
    /\ pc = "classify"
    /\ IF ~CallsModel(text)
       THEN /\ out' = Append(out, classify_text(text, <<>>))
            /\ pc' = "row"
            /\ i' = i + 1
            /\ UNCHANGED model_log
       ELSE IF text = None
       THEN \* None[:1000] raises TypeError
            /\ pc' = "crashed"
            /\ UNCHANGED <<i, out, model_log>>
       ELSE IF categories = <<>>
       THEN /\ model_log' = Append(model_log, ModelCall(i, text, categories, None))
            /\ pc' = "crashed"
            /\ UNCHANGED <<i, out>>
       ELSE \E k \in DOMAIN categories :
               /\ model_log' = Append(model_log, ModelCall(i, text, categories, Str(categories[k])))
               /\ out' = Append(out, classify_text(text, categories[k]))
               /\ pc' = "row"
               /\ i' = i + 1
    /\ response' = None
    /\ text' = None
    /\ UNCHANGED <<uploaded_file, df, categories_input, http_log, messages,
                   displayed, output_file, download>>

\* a loop that stops one row short
WriteColumn_short ==
    /\ pc = "row"
    /\ i >= Len(df.rows)
    /\ df' = [df EXCEPT !.Category = Column(out)]
    /\ pc' = "written"
    /\ UNCHANGED <<uploaded_file, categories_input, i, response, text, out, http_log,
                   model_log, messages, displayed, output_file, download>>

\* line 107: the collected labels become the Category column
WriteColumn ==
    /\ pc = "row"
    /\ i = Len(df.rows) + 1
    /\ df' = [df EXCEPT !.Category = Column(out)]
    /\ pc' = "written"
    /\ UNCHANGED <<uploaded_file, categories_input, i, response, text, out, http_log,
                   model_log, messages, displayed, output_file, download>>

\* lines 113-114: st.dataframe(df[["URL", "Category"]])
ShowResults ==
    /\ pc = "written"
    /\ displayed' = [URL |-> [k \in DOMAIN df.rows |-> UrlCell(k)],
                     Category |-> df.Category]
    /\ pc' = "shown"
    /\ UNCHANGED <<uploaded_file, df, categories_input, i, response, text, out, http_log,
                   model_log, messages, output_file, download>>

\* lines 117-118: df.to_excel("classified_urls.xlsx")
SaveResults ==
    /\ pc = "shown"
    /\ output_file' = df
    /\ pc' = "saved"
    /\ UNCHANGED <<uploaded_file, df, categories_input, i, response, text, out, http_log,
                   model_log, messages, displayed, download>>

\* lines 121-123: st.download_button over the saved file
OfferDownload ==
    /\ pc = "saved"
    /\ download' = output_file
    /\ pc' = "done"
    /\ UNCHANGED <<uploaded_file, df, categories_input, i, response, text, out, http_log,
                   model_log, messages, displayed, output_file>>

Next ==
    \/ \E f \in Files : Upload(f)
    \/ \E c \in CategoryInputs : EditCategories(c)
    \/ ClickClassify
    \/ RowNull
    \/ FetchRow
    \/ ClassifyRow
    \/ WriteColumn
    \/ ShowResults
    \/ SaveResults
    \/ OfferDownload

Spec == Init /\ [][Next]_vars

(***************************************************************************)
(* Claims.                                                                 *)
(***************************************************************************)
Range(seq) == { seq[k] : k \in DOMAIN seq }

\* the row loop has been entered: df has exactly one URL column
InRun == pc \in {"row", "classify", "written", "shown", "saved", "done"}

\* the Category column has been assigned
Completed == pc \in {"written", "shown", "saved", "done"}

RowsOfLog(log) == { log[k].row : k \in DOMAIN log }

\* C1: a completed run has exactly one output row per input row, and every
\* Category is a label of the parsed category list or "Uncategorized".
C1_OneLabelledRowPerInputRow ==
    Completed =>
        /\ df.Category # None
        /\ df.rows = uploaded_file.rows
        /\ Len(df.Category.val) = Len(uploaded_file.rows)
        /\ \A k \in DOMAIN df.Category.val :
              \/ df.Category.val[k] = Uncategorized
              \/ df.Category.val[k] \in Range(categories)
        /\ pc = "done" =>
              /\ output_file.rows = uploaded_file.rows
              /\ output_file.Category = df.Category
              /\ download = output_file

C1_Witness ==
    /\ pc = "done"
    /\ Len(uploaded_file.rows) >= 2
    /\ df.Category.val[1] = Uncategorized
    /\ df.Category.val[2] \in Range(categories)
    /\ df.Category.val[2] # Uncategorized

\* C2: a row whose URL is null gets "Uncategorized", and neither an HTTP
\* request nor a model call is ever made for it.
C2_NullUrlRowsUntouched ==
    InRun =>
        \A k \in DOMAIN df.rows :
            UrlCell(k) = None =>
                /\ k \notin RowsOfLog(http_log)
                /\ k \notin RowsOfLog(model_log)
                /\ k <= Len(out) => out[k] = Uncategorized
                /\ Completed => df.Category.val[k] = Uncategorized

C2_Witness ==
    /\ pc = "done"
    /\ Len(df.rows) >= 2
    /\ UrlCell(1) = None
    /\ df.Category.val[1] = Uncategorized
    /\ UrlCell(2) # None
    /\ RowsOfLog(http_log) = {2}
    /\ RowsOfLog(model_log) = {2}

Last(seq) == seq[Len(seq)]

\* C3: when extract_text returned None, classify_text yields "Uncategorized"
\* at once and the classifier is not called for that row.
C3_AbsentTextSkipsModel ==
    [][(pc = "classify" /\ text = None) =>
          /\ out' = Append(out, Uncategorized)
          /\ model_log' = model_log
          /\ http_log' = http_log]_vars

C3_Witness ==
    /\ pc = "done"
    /\ Len(df.rows) >= 2
    /\ \E k \in DOMAIN messages :
          messages[k].row = 1 /\ messages[k].what = "HTTP status"
    /\ \E k \in DOMAIN messages :
          messages[k].row = 2 /\ messages[k].what = "Request Error"
    /\ df.Category.val[1] = Uncategorized
    /\ df.Category.val[2] = Uncategorized
    /\ RowsOfLog(http_log) = {1, 2}
    /\ model_log = <<>>

\* C4: when extraction gave text, the Category is the label the model ranks
\* first among the full category list, whichever label that is, and it is
\* one of the user's categories.
C4_TopLabelAccepted ==
    /\ [](InRun =>
            \A k \in DOMAIN model_log :
                LET m == model_log[k]
                IN  /\ m.candidate_labels = categories
                    /\ m.top # None =>
                          /\ m.top.val \in Range(categories)
                          /\ m.row <= Len(out) => out[m.row] = m.top.val
                          /\ Completed => df.Category.val[m.row] = m.top.val)
    /\ [][(pc = "classify" /\ Truthy(text) /\ categories # <<>>) =>
             /\ Len(model_log') = Len(model_log) + 1
             /\ Last(model_log').row = i
             /\ Last(model_log').top # None
             /\ out' = Append(out, Last(model_log').top.val)]_vars

C4_Witness ==
    /\ pc = "done"
    /\ Len(categories) >= 2
    /\ \E k \in DOMAIN model_log :
          /\ model_log[k].top = Str(categories[2])
          /\ df.Category.val[model_log[k].row] = categories[2]

\* C5: the classifier receives the first 1000 characters of a longer text and
\* the whole text otherwise, with the full category list as candidate labels.
C5_FirstThousandCharacters ==
    [][(pc = "classify" /\ Truthy(text)) =>
          /\ Len(model_log') = Len(model_log) + 1
          /\ Last(model_log').sequence =
                IF Len(text.val) > TruncateLen
                THEN [k \in 1..TruncateLen |-> text.val[k]]
                ELSE text.val
          /\ Last(model_log').candidate_labels = categories]_vars

C5_Witness ==
    /\ pc = "done"
    /\ Len(model_log) = 2
    /\ Len(model_log[1].sequence) = TruncateLen
    /\ model_log[1].sequence[TruncateLen] = " "
    /\ model_log[2].sequence = <<"a", " ", "b">>

\* C6: extract_text returns None exactly when the trimmed, space-joined
\* paragraph text is empty (no paragraphs, empty or whitespace-only ones),
\* and the trimmed text otherwise.
C6_AbsentWhenTrimmedTextEmpty ==
    (pc = "classify" /\ response.kind = "Response" /\ response.status_code = 200) =>
        LET trimmed == Strip(Join(response.paragraphs, <<" ">>))
        IN  text = IF trimmed = <<>> THEN None ELSE Str(trimmed)

Failed(r) == r.kind # "Response" \/ r.status_code # 200

\* C7: a non-200 status surfaces a warning, an SSL failure and any other
\* request failure surface an error; each makes extract_text return None
\* after exactly one GET for the row, no row is fetched twice, and the loop
\* goes on to the next row.
C7_FailuresAbsentAfterOneGet ==
    /\ [](\A a, b \in DOMAIN http_log : a < b => http_log[a].row < http_log[b].row)
    /\ [][(pc = "row" /\ pc' = "classify") =>
             /\ http_log' = Append(http_log, [row |-> i, url |-> UrlCell(i)])
             /\ (response'.kind = "Response" /\ response'.status_code # 200) =>
                   /\ text' = None
                   /\ messages' = Append(messages, Message("warning", "HTTP status", i))
             /\ response'.kind = "SSLError" =>
                   /\ text' = None
                   /\ messages' = Append(messages, Message("error", "SSL Error", i))
             /\ response'.kind = "RequestException" =>
                   /\ text' = None
                   /\ messages' = Append(messages, Message("error", "Request Error", i))]_vars
    /\ [][(pc = "classify" /\ Failed(response)) =>
             /\ pc' = "row"
             /\ i' = i + 1
             /\ Len(out') = Len(out) + 1
             /\ http_log' = http_log]_vars

C7_Witness ==
    /\ pc = "done"
    /\ Len(http_log) = 2
    /\ messages = << Message("success", "File uploaded", 0),
                     Message("warning", "HTTP status", 1),
                     Message("error", "SSL Error", 2) >>
    /\ Len(df.Category.val) = 2

\* the part of a file name after its last dot (the whole name without a dot)
ExtensionOf(name) ==
    LET dots == { k \in DOMAIN name : name[k] = "." }
    IN  IF dots = {} THEN name
        ELSE SubSeq(name, (CHOOSE k \in dots : \A m \in dots : m <= k) + 1, Len(name))

\* h is "URL" in any letter case, surrounded by whitespace only
IsUrlHeader(h) ==
    \E a \in DOMAIN h :
        /\ a + 2 <= Len(h)
        /\ h[a] \in {"u", "U"}
        /\ h[a + 1] \in {"r", "R"}
        /\ h[a + 2] \in {"l", "L"}
        /\ \A k \in DOMAIN h : (k < a \/ k > a + 2) => h[k] \in Whitespace

LacksUrlHeader(f) == ~ \E j \in DOMAIN f.columns : IsUrlHeader(f.columns[j])

\* C8: after an upload of an unsupported type or without a URL column the
\* script is halted: no GET, no model call, no Category column, nothing
\* displayed, no results file and no download.
C8_RejectedUploadHandlesNoRow ==
    (/\ uploaded_file # None
     /\ \/ ExtensionOf(uploaded_file.name) \notin {csv, xlsx}
        \/ LacksUrlHeader(uploaded_file)) =>
        /\ pc \in {"stopped", "no_url_column"}
        /\ http_log = <<>>
        /\ model_log = <<>>
        /\ out = <<>>
        /\ df # None => df.Category = None
        /\ displayed = None
        /\ output_file = None
        /\ download = None

C8_Witness ==
    /\ pc = "no_url_column"
    /\ uploaded_file.columns = << <<"u", " ", "r", "l">> >>
    /\ Len(uploaded_file.rows) >= 1
    /\ Last(messages).level = "error"

AllLabelled == df # None /\ df.Category # None /\ Len(df.Category.val) = Len(df.rows)

\* C10: rows are handled one at a time in table order: calls are logged in
\* increasing row order, a row's GET precedes its model call, no call is made
\* for a row before the previous row has its label, and the results are
\* shown, saved and offered only once every row has a Category.
C10_SequentialRowOrder ==
    /\ \A a, b \in DOMAIN http_log : a < b => http_log[a].row < http_log[b].row
    /\ \A a, b \in DOMAIN model_log : a < b => model_log[a].row < model_log[b].row
    /\ RowsOfLog(model_log) \subseteq RowsOfLog(http_log)
    /\ \A r \in RowsOfLog(http_log) \cup RowsOfLog(model_log) : r <= Len(out) + 1
    /\ \A k \in DOMAIN http_log : http_log[k].url = UrlCell(http_log[k].row)
    /\ pc \in {"row", "classify"} => i = Len(out) + 1
    /\ pc = "classify" => i \in RowsOfLog(http_log) /\ i \notin RowsOfLog(model_log)
    /\ (displayed # None \/ output_file # None \/ download # None) => AllLabelled
    /\ download # None => (displayed # None /\ output_file # None)

C10_Witness ==
    /\ pc = "done"
    /\ Len(df.rows) >= 2
    /\ RowsOfLog(http_log) = {1, 2}
    /\ RowsOfLog(model_log) = {1, 2}
    /\ download # None

====
